---- MODULE Spec2Model ----
(***************************************************************************)
(* A model of migrations_tool (src/src/migrations_tool/migration.py): the  *)
(* migrations directory, the migration_history table, the resolvers        *)
(* list_migrations_to_upgrade / list_migrations_to_downgrade and the       *)
(* generator lazy_execute with its one-transaction-per-file apply.         *)
(*                                                                         *)
(* File names are Python strings, modelled as sequences of character       *)
(* codes, so that sorted() is the code-point lexicographic order.          *)
(***************************************************************************)
EXTENDS Integers, Sequences, FiniteSets, TLC

VARIABLES
    dir_exists,     \* migrations_dir.exists()
    store,          \* entries of migrations_dir: [name, is_file]
    table_exists,   \* the table migration_history exists
    ledger,         \* rows of migration_history: [filename, executed_at]
    schema,         \* units whose change is committed in the database
    tool,           \* a MigrationTool instance has been constructed
    res,            \* outcome of the last resolver call
    run             \* the generator made by the last lazy_execute call

vars == <<dir_exists, store, table_exists, ledger, schema, tool, res, run>>

---------------------------------------------------------------------------
(* Bounds *)

\* Number of migration units (distinct creation timestamps) that can exist.
NumUnits == 3

\* Greatest history_limit passed to list_all_migrations.
MaxLimit == 2

---------------------------------------------------------------------------
(* Strings *)

Dot == <<46>>
Sep == <<95, 95>>
PyExt == <<46, 112, 121>>
GitKeep == <<46, 103, 105, 116, 107, 101, 101, 112>>
DunderInit == <<95, 95, 105, 110, 105, 116, 95, 95, 46, 112, 121>>
SubDir == <<111, 108, 100>>
Readme == <<82, 69, 65, 68, 77, 69, 46, 109, 100>>
EmptyStr == <<>>

Min(a, b) == IF a <= b THEN a ELSE b

\* Python str.__lt__: code-point lexicographic, a proper prefix sorts first.
StrLess(a, b) ==
    \E i \in 1..(Min(Len(a), Len(b)) + 1) :
        /\ \A j \in 1..(i - 1) : a[j] = b[j]
        /\ \/ i = Len(a) + 1 /\ i <= Len(b)
           \/ i <= Len(a) /\ i <= Len(b) /\ a[i] < b[i]

\* str.startswith
StartsWith(s, p) ==
    /\ Len(p) <= Len(s)
    /\ \A i \in 1..Len(p) : s[i] = p[i]

\* str.endswith
EndsWith(s, p) ==
    /\ Len(p) <= Len(s)
    /\ \A i \in 1..Len(p) : s[Len(s) - Len(p) + i] = p[i]

\* strftime of a creation time: fixed width, zero padded.
Timestamp(ts) == <<48 + (ts \div 10), 48 + (ts % 10)>>

\* The description of the unit created at ts; later units get
\* alphabetically earlier descriptions ("y", "x", "w", ...).
Description(ts) == <<122 - ts>>

\* f"{timestamp}__{description}.py"
UnitName(ts) == Timestamp(ts) \o Sep \o Description(ts) \o PyExt

UnitNames == {UnitName(ts) : ts \in 1..NumUnits}

\* "first_migration_empty", the description that cli.init passes.
FirstMigrationEmpty ==
    <<102, 105, 114, 115, 116, 95, 109, 105, 103, 114, 97, 116, 105, 111,
      110, 95, 101, 109, 112, 116, 121>>

\* description.replace(' ', '_')
ReplaceSpaces(s) == [i \in 1..Len(s) |-> IF s[i] = 32 THEN 95 ELSE s[i]]

\* The name of the file that generate_migration writes at time ts.
GeneratedName(ts, description) ==
    Timestamp(ts) \o Sep \o ReplaceSpaces(description) \o PyExt

\* The names of the files that cli.init can generate.
InitNames == {GeneratedName(ts, FirstMigrationEmpty) : ts \in 1..NumUnits}

\* The path separator.
Slash == <<47>>

\* Descriptions passed to generate_migration: "a b", "z" and "a/b".
Descriptions == {<<97, 32, 98>>, <<122>>, <<97, 47, 98>>}

\* The names that generate_migration can form from them.
GeneratedNames ==
    {GeneratedName(ts, d) : ts \in 1..NumUnits, d \in Descriptions}

\* sorted(iterable of str)
RECURSIVE Sorted(_)
Sorted(S) ==
    IF S = {} THEN <<>>
    ELSE LET m == CHOOSE x \in S : \A y \in S \ {x} : StrLess(x, y)
         IN  <<m>> \o Sorted(S \ {m})

\* list(reversed(seq))
Reversed(s) == [i \in 1..Len(s) |-> s[Len(s) + 1 - i]]

\* x in seq
In(x, s) == \E i \in 1..Len(s) : s[i] = x

\* seq.index(x), for x in seq
Index(s, x) == CHOOSE i \in 1..Len(s) : s[i] = x /\ \A j \in 1..(i - 1) : s[j] # x

\* seq[:n]
Prefix(s, n) == SubSeq(s, 1, n)

Range(s) == {s[i] : i \in 1..Len(s)}

\* str.find(p) + 1: the first position of p in s, 0 when p is not in s.
Find(s, p) ==
    LET At(i) == SubSeq(s, i, i + Len(p) - 1) = p
        hits == {i \in 1..(Len(s) - Len(p) + 1) : At(i)}
    IN  IF hits = {} THEN 0 ELSE CHOOSE i \in hits : \A j \in hits : i <= j

IsDigit(c) == c \in 48..57

\* datetime.strptime(s, DATETIME_FMT): the creation time, or ValueError
\* when s does not match the format.
Strptime(s) ==
    IF Len(s) = 2 /\ IsDigit(s[1]) /\ IsDigit(s[2])
    THEN [error |-> "none", time |-> 10 * (s[1] - 48) + (s[2] - 48)]
    ELSE [error |-> "ValueError", time |-> 0]

\* parse_filename: (created_at, description), or the ValueError of the
\* unpacking of a name without "__" or of strptime.
ParseFilename(filename) ==
    LET dot == Find(filename, Dot)
        stem == IF dot = 0 THEN filename ELSE Prefix(filename, dot - 1)
        sep == Find(stem, Sep)
        datetime_str == Prefix(stem, sep - 1)
        description == SubSeq(stem, sep + Len(Sep), Len(stem))
        created_at == Strptime(datetime_str)
    IN  IF sep = 0 \/ created_at.error # "none"
        THEN [error |-> "ValueError", created_at |-> 0, description |-> EmptyStr]
        ELSE [error |-> "none", created_at |-> created_at.time,
              description |-> description]

---------------------------------------------------------------------------
(* The migrations directory *)

File(n) == [name |-> n, is_file |-> TRUE]
Directory(n) == [name |-> n, is_file |-> FALSE]

\* Entries that are never migration units: the .gitkeep of an empty
\* directory, a package marker and a sub-directory.
FixedEntries == {File(GitKeep), File(DunderInit), Directory(SubDir)}

\* Names of the files a developer may add to or delete from the directory.
FileNames == UnitNames \cup {Readme}

\* Mutant of list_existing_migration_files: sorted(..., reverse=True).
ListExistingMigrationFilesDescending(st) ==
    Reversed(Sorted({f.name : f \in {e \in st : /\ e.is_file
                                                /\ ~StartsWith(e.name, Sep)
                                                /\ e.name # GitKeep}}))

\* MigrationTool.list_existing_migration_files
ListExistingMigrationFiles(st) ==
    Sorted({f.name : f \in {e \in st : /\ e.is_file
                                       /\ ~StartsWith(e.name, Sep)
                                       /\ e.name # GitKeep}})

\* load_migration_module: the exception it raises, or "ok".
LoadMigrationModule(n, st) ==
    IF File(n) \notin st THEN "FileNotFoundError"
    ELSE IF ~EndsWith(n, PyExt) THEN "TypeError"   \* no import spec for the path
    ELSE IF n \notin UnitNames \cup InitNames \cup GeneratedNames
    THEN "TypeError"                               \* module does not match protocol
    ELSE "ok"

---------------------------------------------------------------------------
(* The table migration_history *)

\* datetime.now(UTC): a non-null time.
Now == "now"

\* MigrationHistory(filename=..., executed_at=...)
MigrationHistory(f) == [filename |-> f, executed_at |-> Now]

NotInitialized == "MigrationsToolError: not initialized"
DirectoryNotFound == "MigrationsToolError: directory not found"

\* Mutant of create_history_table: create_all(engine, checkfirst=True).
CreateHistoryTableCheckFirst(exists) == [error |-> "none", exists |-> TRUE]

\* create_history_table: CREATE TABLE without IF NOT EXISTS.
CreateHistoryTable(exists) ==
    IF exists
    THEN [error |-> "OperationalError", exists |-> TRUE]
    ELSE [error |-> "none", exists |-> TRUE]

\* Mutant of assert_history_table_exists: the table is not inspected.
AssertHistoryTableExistsUnchecked(exists) == "none"

\* assert_history_table_exists: the exception it raises, or "none".
AssertHistoryTableExists(exists) == IF exists THEN "none" ELSE NotInitialized

\* Mutant of MigrationTool.__init__: the table is created before the
\* directory is looked for.
MigrationToolInitCreatingFirst(should_create_history_table, dir, exists) ==
    LET created == IF should_create_history_table
                   THEN CreateHistoryTable(exists)
                   ELSE [error |-> "none", exists |-> exists]
    IN  IF created.error # "none"
        THEN created
        ELSE IF ~dir
        THEN [error |-> DirectoryNotFound, exists |-> created.exists]
        ELSE [error |-> AssertHistoryTableExists(created.exists),
              exists |-> created.exists]

\* MigrationTool.__init__: the exception it raises, or "none", and whether
\* the table exists afterwards.
MigrationToolInit(should_create_history_table, dir, exists) ==
    IF ~dir
    THEN [error |-> DirectoryNotFound, exists |-> exists]
    ELSE LET created == IF should_create_history_table
                        THEN CreateHistoryTable(exists)
                        ELSE [error |-> "none", exists |-> exists]
         IN  IF created.error # "none"
             THEN created
             ELSE [error |-> AssertHistoryTableExists(created.exists),
                   exists |-> created.exists]

\* MigrationTool.list_applied_migration_files
ListAppliedMigrationFiles(led) == Sorted({r.filename : r \in led})

---------------------------------------------------------------------------
(* Resolvers *)

\* target_filename: str | None
None == [given |-> FALSE, name |-> EmptyStr]
Str(n) == [given |-> TRUE, name |-> n]

\* Mutant of the test of the target: `if target_filename is not None:`
TruthyNotNone(t) == t.given

\* `if target_filename:`
Truthy(t) == t.given /\ t.name # EmptyStr

Targets == {None, Str(EmptyStr)} \cup {Str(n) : n \in UnitNames}

Return(p) == [error |-> "none", plan |-> p]
Raise(e) == [error |-> e, plan |-> <<>>]

TargetNotFound == "ValueError: target not found in existing files"
TargetNotApplied == "ValueError: target not found in applied files"

\* Mutant of list_migrations_to_upgrade: applied files are not filtered out.
ListMigrationsToUpgradeUnfiltered(target, st, led) ==
    LET existing_files == ListExistingMigrationFiles(st)
    IN  IF Truthy(target)
        THEN IF ~In(target.name, existing_files)
             THEN Raise(TargetNotFound)
             ELSE LET target_index == Index(existing_files, target.name)
                      UpToTarget(f) == Index(existing_files, f) <= target_index
                  IN  Return(SelectSeq(existing_files, UpToTarget))
        ELSE Return(existing_files)

\* Mutant of list_migrations_to_upgrade: the target itself is left out
\* (`<` for `<=`).
ListMigrationsToUpgradeBeforeTarget(target, st, led) ==
    LET applied_files == ListAppliedMigrationFiles(led)
        existing_files == ListExistingMigrationFiles(st)
        NotApplied(f) == ~In(f, applied_files)
        migrations == SelectSeq(existing_files, NotApplied)
    IN  IF Truthy(target)
        THEN IF ~In(target.name, existing_files)
             THEN Raise(TargetNotFound)
             ELSE LET target_index == Index(existing_files, target.name)
                      UpToTarget(f) == Index(existing_files, f) < target_index
                  IN  Return(SelectSeq(migrations, UpToTarget))
        ELSE Return(migrations)

\* Mutant of list_migrations_to_upgrade: a target that is not found is
\* ignored instead of raising.
ListMigrationsToUpgradeLenient(target, st, led) ==
    LET applied_files == ListAppliedMigrationFiles(led)
        existing_files == ListExistingMigrationFiles(st)
        NotApplied(f) == ~In(f, applied_files)
        migrations == SelectSeq(existing_files, NotApplied)
    IN  IF Truthy(target) /\ In(target.name, existing_files)
        THEN LET target_index == Index(existing_files, target.name)
                 UpToTarget(f) == Index(existing_files, f) <= target_index
             IN  Return(SelectSeq(migrations, UpToTarget))
        ELSE Return(migrations)

\* Mutant of list_migrations_to_upgrade: an empty directory is an error.
ListMigrationsToUpgradeNonEmpty(target, st, led) ==
    LET applied_files == ListAppliedMigrationFiles(led)
        existing_files == ListExistingMigrationFiles(st)
        NotApplied(f) == ~In(f, applied_files)
        migrations == SelectSeq(existing_files, NotApplied)
    IN  IF existing_files = <<>>
        THEN Raise(TargetNotFound)
        ELSE IF Truthy(target)
        THEN IF ~In(target.name, existing_files)
             THEN Raise(TargetNotFound)
             ELSE LET target_index == Index(existing_files, target.name)
                      UpToTarget(f) == Index(existing_files, f) <= target_index
                  IN  Return(SelectSeq(migrations, UpToTarget))
        ELSE Return(migrations)

\* MigrationTool.list_migrations_to_upgrade
ListMigrationsToUpgrade(target, st, led) ==
    LET applied_files == ListAppliedMigrationFiles(led)
        existing_files == ListExistingMigrationFiles(st)
        NotApplied(f) == ~In(f, applied_files)
        migrations == SelectSeq(existing_files, NotApplied)
    IN  IF Truthy(target)
        THEN IF ~In(target.name, existing_files)
             THEN Raise(TargetNotFound)
             ELSE LET target_index == Index(existing_files, target.name)
                      UpToTarget(f) == Index(existing_files, f) <= target_index
                  IN  Return(SelectSeq(migrations, UpToTarget))
        ELSE Return(migrations)

\* Mutant of list_migrations_to_downgrade: the applied files are not
\* reversed.
ListMigrationsToDowngradeAscending(target, st, led) ==
    LET applied_files == ListAppliedMigrationFiles(led)
        existing_files == ListExistingMigrationFiles(st)
        migrations == applied_files
    IN  IF Truthy(target)
        THEN IF ~In(target.name, existing_files)
             THEN Raise(TargetNotFound)
             ELSE IF ~In(target.name, migrations)
             THEN Raise(TargetNotApplied)
             ELSE Return(Prefix(migrations, Index(migrations, target.name) - 1))
        ELSE Return(migrations)

\* Mutant of list_migrations_to_downgrade: the slice includes the target
\* (`migrations[:target_index + 1]`).
ListMigrationsToDowngradeThroughTarget(target, st, led) ==
    LET applied_files == ListAppliedMigrationFiles(led)
        existing_files == ListExistingMigrationFiles(st)
        migrations == Reversed(applied_files)
    IN  IF Truthy(target)
        THEN IF ~In(target.name, existing_files)
             THEN Raise(TargetNotFound)
             ELSE IF ~In(target.name, migrations)
             THEN Raise(TargetNotApplied)
             ELSE Return(Prefix(migrations, Index(migrations, target.name)))
        ELSE Return(migrations)

\* Mutant of list_migrations_to_downgrade: the target is looked up in the
\* applied files only, not in the existing files.
ListMigrationsToDowngradeAppliedOnly(target, st, led) ==
    LET applied_files == ListAppliedMigrationFiles(led)
        migrations == Reversed(applied_files)
    IN  IF Truthy(target)
        THEN IF ~In(target.name, migrations)
             THEN Raise(TargetNotApplied)
             ELSE Return(Prefix(migrations, Index(migrations, target.name) - 1))
        ELSE Return(migrations)

\* Mutant of list_migrations_to_downgrade: applied files that are gone
\* from the directory are left out of the plan.
ListMigrationsToDowngradeExistingOnly(target, st, led) ==
    LET applied_files == ListAppliedMigrationFiles(led)
        existing_files == ListExistingMigrationFiles(st)
        Existing(f) == In(f, existing_files)
        migrations == SelectSeq(Reversed(applied_files), Existing)
    IN  IF Truthy(target)
        THEN IF ~In(target.name, existing_files)
             THEN Raise(TargetNotFound)
             ELSE IF ~In(target.name, migrations)
             THEN Raise(TargetNotApplied)
             ELSE Return(Prefix(migrations, Index(migrations, target.name) - 1))
        ELSE Return(migrations)

\* MigrationTool.list_migrations_to_downgrade
ListMigrationsToDowngrade(target, st, led) ==
    LET applied_files == ListAppliedMigrationFiles(led)
        existing_files == ListExistingMigrationFiles(st)
        migrations == Reversed(applied_files)
    IN  IF Truthy(target)
        THEN IF ~In(target.name, existing_files)
             THEN Raise(TargetNotFound)
             ELSE IF ~In(target.name, migrations)
             THEN Raise(TargetNotApplied)
             ELSE Return(Prefix(migrations, Index(migrations, target.name) - 1))
        ELSE Return(migrations)

---------------------------------------------------------------------------
(* One unit-of-work: Session.begin() ... commit or rollback *)

\* Session.begin(): the transaction sees the committed database; `new`
\* holds the objects added to the session and not yet flushed.
Begin(led, sch) == [ledger |-> led, schema |-> sch, new |-> {}, raised |-> "none"]

\* module.upgrade(session): makes the unit's change, and may raise after
\* making part of it.
ModuleUpgrade(session, f, ok) ==
    [session EXCEPT !.schema = @ \cup {f},
                    !.raised = IF ok THEN "none" ELSE "SQLAlchemyError"]

\* module.downgrade(session): undoes the unit's change, and may raise after
\* undoing part of it.
ModuleDowngrade(session, f, ok) ==
    [session EXCEPT !.schema = @ \ {f},
                    !.raised = IF ok THEN "none" ELSE "SQLAlchemyError"]

\* Mutant of save_migration_history: the record is built and never added
\* to the session.
SaveMigrationHistoryUnadded(f, session) == session

\* save_migration_history: session.add(record)
SaveMigrationHistory(f, session) ==
    [session EXCEPT !.new = @ \cup {MigrationHistory(f)}]

\* Mutant of delete_migration_history: the statement is built and never
\* executed.
DeleteMigrationHistoryUnexecuted(f, session) == session

\* Mutant of delete_migration_history: DELETE without the WHERE clause.
DeleteMigrationHistoryAll(f, session) == [session EXCEPT !.ledger = {}]

\* Mutant of delete_migration_history: a DELETE that matches no row is an
\* error.
DeleteMigrationHistoryStrict(f, session) ==
    IF \A r \in session.ledger : r.filename # f
    THEN [session EXCEPT !.raised = "NoResultFound"]
    ELSE [session EXCEPT !.ledger = {r \in @ : r.filename # f}]

\* delete_migration_history: DELETE ... WHERE filename = f
DeleteMigrationHistory(f, session) ==
    [session EXCEPT !.ledger = {r \in @ : r.filename # f}]

\* Mutant of the flush: filename is not a key of the table.
FlushUnkeyed(session) ==
    [session EXCEPT !.ledger = @ \cup session.new, !.new = {}]

\* The flush of a commit: INSERT the added records; filename is the
\* primary key.
Flush(session) ==
    IF \E n \in session.new : \E r \in session.ledger : r.filename = n.filename
    THEN [session EXCEPT !.raised = "IntegrityError"]
    ELSE [session EXCEPT !.ledger = @ \cup session.new, !.new = {}]

\* Mutant of the end of the unit-of-work: the unit's change was made
\* outside the transaction, and survives the rollback.
EndKeepingChange(session, led, sch) ==
    IF session.raised # "none"
    THEN [ledger |-> led, schema |-> session.schema, error |-> session.raised]
    ELSE LET flushed == Flush(session)
         IN  IF flushed.raised # "none"
             THEN [ledger |-> led, schema |-> session.schema,
                   error |-> flushed.raised]
             ELSE [ledger |-> flushed.ledger, schema |-> flushed.schema,
                   error |-> "none"]

\* Leaving `with self.Session.begin()`: commit, or rollback on an exception.
\* The outcome is the committed database and the exception that propagates.
End(session, led, sch) ==
    IF session.raised # "none"
    THEN [ledger |-> led, schema |-> sch, error |-> session.raised]
    ELSE LET flushed == Flush(session)
         IN  IF flushed.raised # "none"
             THEN [ledger |-> led, schema |-> sch, error |-> flushed.raised]
             ELSE [ledger |-> flushed.ledger, schema |-> flushed.schema,
                   error |-> "none"]

\* Mutant of apply: db_update runs, and is committed, in a unit-of-work of
\* its own before the capability is invoked.
ApplyRecordingFirst(filename, upgrade, ok, led, sch) ==
    LET first == Begin(led, sch)
        recorded == End(IF upgrade THEN SaveMigrationHistory(filename, first)
                        ELSE DeleteMigrationHistory(filename, first), led, sch)
        session == Begin(recorded.ledger, sch)
        applied == IF upgrade THEN ModuleUpgrade(session, filename, ok)
                   ELSE ModuleDowngrade(session, filename, ok)
        out == End(applied, recorded.ledger, sch)
    IN  IF recorded.error # "none" THEN recorded ELSE out

\* Mutant of apply: an exception of the capability is caught inside the
\* unit-of-work and raised again after db_update and the commit.
ApplyRecordingAlways(filename, upgrade, ok, led, sch) ==
    LET session == Begin(led, sch)
        applied == IF upgrade THEN ModuleUpgrade(session, filename, TRUE)
                   ELSE ModuleDowngrade(session, filename, TRUE)
        updated == IF upgrade THEN SaveMigrationHistory(filename, applied)
                   ELSE DeleteMigrationHistory(filename, applied)
        out == End(updated, led, sch)
    IN  IF out.error = "none" /\ ~ok
        THEN [out EXCEPT !.error = "SQLAlchemyError"]
        ELSE out

\* MigrationTool.apply, with function_to_apply and db_update as chosen by
\* lazy_execute from `upgrade`; ok: the capability does not raise.
Apply(filename, upgrade, ok, led, sch) ==
    LET session == Begin(led, sch)
        applied == IF upgrade THEN ModuleUpgrade(session, filename, ok)
                   ELSE ModuleDowngrade(session, filename, ok)
        updated == IF applied.raised # "none" THEN applied
                   ELSE IF upgrade THEN SaveMigrationHistory(filename, applied)
                   ELSE DeleteMigrationHistory(filename, applied)
    IN  End(updated, led, sch)

\* Mutant of generate_migration: the path is returned and the file is
\* never written.
GenerateMigrationUnwritten(ts, description, st) ==
    [error |-> "none", store |-> st,
     filepath |-> GeneratedName(ts, description)]

\* MigrationTool.generate_migration at time ts: the directory afterwards
\* and the path returned. write_text creates the file, or overwrites the
\* file of that name; a "/" in the name makes the path one below a
\* directory that does not exist, and open() raises FileNotFoundError.
GenerateMigration(ts, description, st) ==
    LET filename == GeneratedName(ts, description)
    IN  IF Find(filename, Slash) # 0
        THEN [error |-> "FileNotFoundError", store |-> st,
              filepath |-> EmptyStr]
        ELSE [error |-> "none", store |-> st \cup {File(filename)},
              filepath |-> filename]

\* history_limit: int | None
NoLimit == [given |-> FALSE, n |-> 0]
Limit(n) == [given |-> TRUE, n |-> n]

Limits == {NoLimit} \cup {Limit(n) : n \in 0..MaxLimit}

\* executed_at of a MigrationInfo that has none.
NoTime == "None"

\* MigrationInfo(filename, created_at, executed_at)
MigrationInfo(filename, created_at, executed_at) ==
    [filename |-> filename, created_at |-> created_at,
     executed_at |-> executed_at]

\* The rows that the SELECT of list_all_migrations returns: with a limit
\* (`if history_limit:`), the rows of the history_limit greatest
\* filenames; ascending by filename either way.
SelectHistory(history_limit, led) ==
    LET Row(f) == CHOOSE r \in led : r.filename = f
        descending == Reversed(Sorted({r.filename : r \in led}))
        subq == IF history_limit.given /\ history_limit.n # 0
                THEN Prefix(descending, Min(history_limit.n, Len(descending)))
                ELSE descending
        joined == Sorted(Range(subq))
    IN  [i \in 1..Len(joined) |-> Row(joined[i])]

\* MigrationTool.list_all_migrations: the list it returns, or the
\* ValueError of parse_filename.
ListAllMigrations(history_limit, st, led) ==
    LET rows == SelectHistory(history_limit, led)
        pending == ListMigrationsToUpgrade(None, st, led).plan
        applied_info == [i \in 1..Len(rows) |->
                           MigrationInfo(rows[i].filename,
                                         ParseFilename(rows[i].filename).created_at,
                                         rows[i].executed_at)]
        pending_info == [i \in 1..Len(pending) |->
                           MigrationInfo(pending[i],
                                         ParseFilename(pending[i]).created_at,
                                         NoTime)]
    IN  IF \/ \E i \in 1..Len(rows) :
                 ParseFilename(rows[i].filename).error # "none"
           \/ \E i \in 1..Len(pending) :
                 ParseFilename(pending[i]).error # "none"
        THEN [error |-> "ValueError", rows |-> <<>>]
        ELSE [error |-> "none", rows |-> applied_info \o pending_info]

\* Mutant of get_current_revision: files[0] for files[-1].
GetCurrentRevisionFirst(led) ==
    LET files == ListAppliedMigrationFiles(led)
    IN  IF files # <<>> THEN files[1] ELSE EmptyStr

\* MigrationTool.get_current_revision
GetCurrentRevision(led) ==
    LET files == ListAppliedMigrationFiles(led)
    IN  IF files # <<>> THEN files[Len(files)] ELSE EmptyStr

---------------------------------------------------------------------------
(* State *)

\* count and confirmed are the -n option and the confirmation (-y, or the
\* answer to the prompt) of a cli command.
NoRes == [op |-> "none", target |-> None, limit |-> NoLimit,
          error |-> "none", plan |-> <<>>, rows |-> <<>>,
          count |-> 0, confirmed |-> FALSE]

\* The generator of lazy_execute: state is created (not started), suspended
\* (at the yield), done (exhausted) or failed (an exception left it);
\* pos counts the files the loop has taken; loaded, invoked and yielded
\* record, in order, the files loaded, the files whose capability was
\* invoked and the files produced; before is the ledger at the call.
\* named is the file that the exception which left the generator names.
\* origin is set for a run that undoes a finished upgrade run: the ledger
\* as it was before that upgrade run.
NoOrigin == [known |-> FALSE, ledger |-> {}]

NoRun == [state |-> "none", files |-> <<>>, upgrade |-> TRUE, pos |-> 0,
          loaded |-> <<>>, invoked |-> <<>>, yielded |-> <<>>,
          error |-> "none", named |-> None, before |-> {},
          origin |-> NoOrigin]

Init ==
    /\ dir_exists \in BOOLEAN
    /\ store = IF dir_exists THEN FixedEntries ELSE {}
    /\ table_exists = FALSE
    /\ ledger = {}
    /\ schema = {}
    /\ tool = FALSE
    /\ res = NoRes
    /\ run = NoRun

---------------------------------------------------------------------------
(* Operations *)

\* No generator is part way through its list: the tool is used by one
\* process, one invocation at a time, and the directory is edited between
\* invocations.
Idle == run.state \notin {"created", "suspended"}

\* MigrationTool.__init__; a generator of an earlier instance is dropped.
Construct(should_create_history_table) ==
    LET made == MigrationToolInit(should_create_history_table, dir_exists,
                                  table_exists)
    IN  /\ table_exists' = made.exists
        /\ tool' = (tool \/ made.error = "none")
        /\ res' = [NoRes EXCEPT !.op = "construct", !.error = made.error]
        /\ run' = NoRun
        /\ UNCHANGED <<dir_exists, store, ledger, schema>>

\* A developer writes a file into the migrations directory; what earlier
\* invocations returned is gone.
AddFile(n) ==
    /\ dir_exists
    /\ Idle
    /\ File(n) \notin store
    /\ store' = store \cup {File(n)}
    /\ res' = NoRes
    /\ run' = NoRun
    /\ UNCHANGED <<dir_exists, table_exists, ledger, schema, tool>>

\* A developer deletes a file from the migrations directory.
RemoveFile(n) ==
    /\ Idle
    /\ File(n) \in store
    /\ store' = store \ {File(n)}
    /\ res' = NoRes
    /\ run' = NoRun
    /\ UNCHANGED <<dir_exists, table_exists, ledger, schema, tool>>

\* tool.list_migrations_to_upgrade(target_filename=target); a generator
\* still held from an earlier call is dropped.
ResolveUpgrade(target) ==
    /\ tool
    /\ LET r == ListMigrationsToUpgrade(target, store, ledger)
       IN  res' = [NoRes EXCEPT !.op = "upgrade", !.target = target,
                                !.error = r.error, !.plan = r.plan]
    /\ run' = NoRun
    /\ UNCHANGED <<dir_exists, store, table_exists, ledger, schema, tool>>

\* tool.list_migrations_to_downgrade(target_filename=target)
ResolveDowngrade(target) ==
    /\ tool
    /\ LET r == ListMigrationsToDowngrade(target, store, ledger)
       IN  res' = [NoRes EXCEPT !.op = "downgrade", !.target = target,
                                !.error = r.error, !.plan = r.plan]
    /\ run' = NoRun
    /\ UNCHANGED <<dir_exists, store, table_exists, ledger, schema, tool>>

\* tool.list_all_migrations(history_limit=history_limit)
ListAll(history_limit) ==
    /\ tool
    /\ LET r == ListAllMigrations(history_limit, store, ledger)
       IN  res' = [NoRes EXCEPT !.op = "list", !.limit = history_limit,
                                !.error = r.error, !.rows = r.rows]
    /\ run' = NoRun
    /\ UNCHANGED <<dir_exists, store, table_exists, ledger, schema, tool>>

\* tool.generate_migration(description) at time ts; target is the
\* description passed and plan holds the name of the file returned.
Generate(ts, description) ==
    /\ tool
    /\ Idle
    /\ LET r == GenerateMigration(ts, description, store)
       IN  /\ store' = r.store
           /\ res' = [NoRes EXCEPT !.op = "generate",
                                   !.target = Str(description),
                                   !.error = r.error,
                                   !.plan = IF r.error = "none"
                                            THEN <<r.filepath>> ELSE <<>>]
    /\ run' = NoRun
    /\ UNCHANGED <<dir_exists, table_exists, ledger, schema, tool>>

\* MigrationTool.lazy_execute(files, upgrade): calling a generator function
\* runs none of its body.
LazyExecute(files, upgrade) ==
    [NoRun EXCEPT !.state = "created", !.files = files, !.upgrade = upgrade,
                  !.before = ledger]

\* tool.lazy_execute(plan, upgrade) on the plan a resolver returned
\* (cli.upgrade, cli.downgrade, cli.init).
ExecutePlan ==
    /\ tool
    /\ res.op \in {"upgrade", "downgrade"}
    /\ res.error = "none"
    /\ run.state = "none"
    /\ run' = LazyExecute(res.plan, res.op = "upgrade")
    /\ UNCHANGED <<dir_exists, store, table_exists, ledger, schema, tool, res>>

\* tool.lazy_execute([filename], upgrade) on a file the caller names.
ExecuteFile(n, upgrade) ==
    /\ tool
    /\ run.state \in {"none", "done", "failed"}
    /\ run' = LazyExecute(<<n>>, upgrade)
    /\ res' = NoRes
    /\ UNCHANGED <<dir_exists, store, table_exists, ledger, schema, tool>>

\* tool.lazy_execute(files, upgrade) once more with the list of the
\* finished run.
ExecuteAgain ==
    /\ tool
    /\ run.state \in {"done", "failed"}
    /\ run.files # <<>>
    /\ run' = LazyExecute(run.files, run.upgrade)
    /\ UNCHANGED <<dir_exists, store, table_exists, ledger, schema, tool, res>>

\* tool.lazy_execute(reversed(files), upgrade=False) on the files that a
\* finished upgrade run has just applied: each unit executed with upgrade
\* is then executed with downgrade.
ExecuteUndo ==
    /\ tool
    /\ run.state = "done"
    /\ run.upgrade
    /\ run.files # <<>>
    /\ run' = [LazyExecute(Reversed(run.files), FALSE) EXCEPT
                   !.origin = [known |-> TRUE, ledger |-> run.before]]
    /\ UNCHANGED <<dir_exists, store, table_exists, ledger, schema, tool, res>>

\* The file named by an exception that leaves lazy_execute for `file`:
\* load_migration_module puts the path in its errors, the INSERT that
\* fails carries its parameters, and an exception of the capability is
\* passed on as raised, lazy_execute and apply adding nothing to it.
Named(error, file) ==
    IF error \in {"FileNotFoundError", "TypeError", "IntegrityError"}
    THEN Str(file)
    ELSE None

\* Mutant of the failure of a load: the file is skipped and the loop goes
\* on (`except Exception: continue`).
LoadFailureSkipped(r, error, file) ==
    [r EXCEPT !.state = "suspended", !.pos = @ + 1, !.error = error,
              !.named = Named(error, file)]

\* load_migration_module raises inside the loop of lazy_execute: the
\* exception leaves the generator, which is finished.
LoadFailure(r, error, file) ==
    [r EXCEPT !.state = "failed", !.pos = @ + 1, !.error = error,
              !.named = Named(error, file)]

\* Mutant of the loop of lazy_execute: the module of the next file is
\* loaded before the yield.
GenStepLoadingAhead(r, ok, st, led, sch) ==
    IF r.pos = Len(r.files)
    THEN [run |-> [r EXCEPT !.state = "done"], ledger |-> led, schema |-> sch]
    ELSE LET file == r.files[r.pos + 1]
             module == LoadMigrationModule(file, st)
             ahead == IF r.pos + 2 <= Len(r.files)
                      THEN <<r.files[r.pos + 2]>> ELSE <<>>
         IN  IF module # "ok"
             THEN [run |-> LoadFailure(r, module, file),
                   ledger |-> led, schema |-> sch]
             ELSE LET out == Apply(file, r.upgrade, ok, led, sch)
                  IN  [run |-> [r EXCEPT
                                 !.state = IF out.error = "none"
                                           THEN "suspended" ELSE "failed",
                                 !.pos = @ + 1,
                                 !.loaded = Append(@, file) \o ahead,
                                 !.invoked = Append(@, file),
                                 !.yielded = IF out.error = "none"
                                             THEN Append(@, file) ELSE @,
                                 !.error = out.error,
                                 !.named = Named(out.error, file)],
                       ledger |-> out.ledger,
                       schema |-> out.schema]

\* Mutant of the loop of lazy_execute: an exception of apply is caught
\* and the loop goes on with the next file.
GenStepCatching(r, ok, st, led, sch) ==
    IF r.pos = Len(r.files)
    THEN [run |-> [r EXCEPT !.state = "done"], ledger |-> led, schema |-> sch]
    ELSE LET file == r.files[r.pos + 1]
             module == LoadMigrationModule(file, st)
         IN  IF module # "ok"
             THEN [run |-> LoadFailure(r, module, file),
                   ledger |-> led, schema |-> sch]
             ELSE LET out == Apply(file, r.upgrade, ok, led, sch)
                  IN  [run |-> [r EXCEPT
                                 !.state = "suspended",
                                 !.pos = @ + 1,
                                 !.loaded = Append(@, file),
                                 !.invoked = Append(@, file),
                                 !.yielded = IF out.error = "none"
                                             THEN Append(@, file) ELSE @,
                                 !.error = out.error,
                                 !.named = Named(out.error, file)],
                       ledger |-> out.ledger,
                       schema |-> out.schema]

\* One pass of the loop of lazy_execute, from the generator r: up to its
\* next yield, its end, or the exception that leaves it; ok: the
\* capability does not raise.
GenStep(r, ok, st, led, sch) ==
    IF r.pos = Len(r.files)
    THEN [run |-> [r EXCEPT !.state = "done"], ledger |-> led, schema |-> sch]
    ELSE LET file == r.files[r.pos + 1]
             module == LoadMigrationModule(file, st)
         IN  IF module # "ok"
             THEN [run |-> LoadFailure(r, module, file),
                   ledger |-> led, schema |-> sch]
             ELSE LET out == Apply(file, r.upgrade, ok, led, sch)
                  IN  [run |-> [r EXCEPT
                                 !.state = IF out.error = "none"
                                           THEN "suspended" ELSE "failed",
                                 !.pos = @ + 1,
                                 !.loaded = Append(@, file),
                                 !.invoked = Append(@, file),
                                 !.yielded = IF out.error = "none"
                                             THEN Append(@, file) ELSE @,
                                 !.error = out.error,
                                 !.named = Named(out.error, file)],
                       ledger |-> out.ledger,
                       schema |-> out.schema]

\* next() on the generator.
GenNext ==
    /\ run.state \in {"created", "suspended"}
    /\ \E ok \in BOOLEAN :
          LET step == GenStep(run, ok, store, ledger, schema)
          IN  /\ run' = step.run
              /\ ledger' = step.ledger
              /\ schema' = step.schema
    /\ UNCHANGED <<dir_exists, store, table_exists, tool, res>>

\* list(generator): next() until the generator is exhausted or an
\* exception leaves it; fails: the positions in the list of the units
\* whose capability raises when invoked.
RECURSIVE Drain(_, _, _, _, _)
Drain(r, fails, st, led, sch) ==
    IF r.state \notin {"created", "suspended"}
    THEN [run |-> r, ledger |-> led, schema |-> sch]
    ELSE LET step == GenStep(r, (r.pos + 1) \notin fails, st, led, sch)
         IN  Drain(step.run, fails, st, step.ledger, step.schema)

\* main: exit(1) when an exception leaves the command.
ExitCode(error) == IF error = "none" THEN 0 ELSE 1

\* `migrate init` at time ts (cli.init under cli.main): get_tool(init=True),
\* generate_migration("first_migration_empty"), then the whole upgrade run
\* of everything pending; the tool is local to the command.
CliInit(ts, fails) ==
    /\ Idle
    /\ LET made == MigrationToolInit(TRUE, dir_exists, table_exists)
           st == GenerateMigration(ts, FirstMigrationEmpty, store).store
           plan == ListMigrationsToUpgrade(None, st, ledger)
           out == Drain(LazyExecute(plan.plan, TRUE), fails, st, ledger, schema)
       IN  IF made.error # "none"
           THEN /\ table_exists' = made.exists
                /\ res' = [NoRes EXCEPT !.op = "init", !.error = made.error]
                /\ run' = NoRun
                /\ UNCHANGED <<store, ledger, schema>>
           ELSE /\ table_exists' = made.exists
                /\ store' = st
                /\ ledger' = out.ledger
                /\ schema' = out.schema
                /\ run' = out.run
                /\ res' = [NoRes EXCEPT !.op = "init",
                                        !.error = out.run.error,
                                        !.plan = plan.plan]
    /\ UNCHANGED <<dir_exists, tool>>

Next ==
    \/ \E c \in BOOLEAN : Construct(c)
    \/ \E n \in FileNames : AddFile(n)
    \/ \E n \in FileNames : RemoveFile(n)
    \/ \E t \in Targets : ResolveUpgrade(t)
    \/ \E t \in Targets : ResolveDowngrade(t)
    \/ ExecutePlan
    \/ \E n \in FileNames, u \in BOOLEAN : ExecuteFile(n, u)
    \/ ExecuteAgain
    \/ ExecuteUndo
    \/ GenNext

\* Mutant of the end of a command before it executes: the history
\* records of its plan are deleted before the user is asked.
CliStopsDeleting(r, error) ==
    /\ res' = [r EXCEPT !.error = error]
    /\ run' = NoRun
    /\ ledger' = {h \in ledger : h.filename \notin Range(r.plan)}
    /\ UNCHANGED schema

\* A cli command ends before it executes anything: with the exception
\* `error`, or by returning ("none").
CliStops(r, error) ==
    /\ res' = [r EXCEPT !.error = error]
    /\ run' = NoRun
    /\ UNCHANGED <<ledger, schema>>

\* history_limit of the list that cli.upgrade shows when it is done.
UpgradeHistoryLimit == 10

\* `migrate upgrade [--target-file t]` (cli.upgrade under cli.main).
CliUpgrade(target_file) ==
    /\ Idle
    /\ LET made == MigrationToolInit(FALSE, dir_exists, table_exists)
           files == ListMigrationsToUpgrade(target_file, store, ledger)
           call == [NoRes EXCEPT !.op = "cli upgrade", !.target = target_file]
       IN  IF made.error # "none" THEN CliStops(call, made.error)
           ELSE IF files.error # "none" THEN CliStops(call, files.error)
           ELSE IF files.plan = <<>> THEN CliStops(call, "none")
           ELSE \E fail \in 0..Len(files.plan) :
                  LET out == Drain(LazyExecute(files.plan, TRUE), {fail},
                                   store, ledger, schema)
                      shown == ListAllMigrations(Limit(UpgradeHistoryLimit),
                                                 store, out.ledger)
                  IN  /\ ledger' = out.ledger
                      /\ schema' = out.schema
                      /\ run' = out.run
                      /\ res' = [call EXCEPT
                                    !.plan = files.plan,
                                    !.error = IF out.run.error # "none"
                                              THEN out.run.error
                                              ELSE shown.error]
    /\ UNCHANGED <<dir_exists, store, table_exists, tool>>

\* The default of the -n option of cli.downgrade.
DefaultCount == 1

\* The least value given to -n, an int option with no lower limit: -1
\* makes the index -0 and -2 the index 1 from the start.
MinCount == -2

\* Mutant of applied[-count]: a count beyond the list gives its first
\* element.
FromEndClamped(applied, count) ==
    IF applied = <<>>
    THEN [error |-> "IndexError", name |-> EmptyStr]
    ELSE IF count > Len(applied) \/ -count >= Len(applied)
    THEN [error |-> "none", name |-> applied[1]]
    ELSE IF count <= 0
    THEN [error |-> "none", name |-> applied[1 - count]]
    ELSE [error |-> "none", name |-> applied[Len(applied) - count + 1]]

\* applied[-count] of cli.downgrade: for count > 0 the count-th element
\* from the end; applied[-0] is applied[0]; for count < 0 the index
\* -count is counted from the start.
FromEnd(applied, count) ==
    IF count > Len(applied) \/ -count >= Len(applied)
    THEN [error |-> "IndexError", name |-> EmptyStr]
    ELSE IF count <= 0
    THEN [error |-> "none", name |-> applied[1 - count]]
    ELSE [error |-> "none", name |-> applied[Len(applied) - count + 1]]

\* Mutant of cli.downgrade: the count is not incremented, so the target
\* is the n-th applied file from the end.
CliDowngradeTargetUnshifted(filename, n, applied) ==
    IF Truthy(filename)
    THEN [error |-> "none", name |-> filename.name]
    ELSE FromEnd(applied, n)

\* cli.downgrade: the target, from --filename or from -n.
CliDowngradeTarget(filename, n, applied) ==
    IF Truthy(filename)
    THEN [error |-> "none", name |-> filename.name]
    ELSE FromEnd(applied, n + 1)

\* `migrate downgrade [--filename f] [-n n] [-y]` (cli.downgrade under
\* cli.main). The command ends with show_list(), called as a plain
\* function: its limit is then the typer.Option default object and no
\* int, and whether list_all_migrations accepts it is SQLAlchemy's
\* matter; both outcomes are allowed (shown).
CliDowngrade(filename, n) ==
    /\ Idle
    /\ LET made == MigrationToolInit(FALSE, dir_exists, table_exists)
           target == CliDowngradeTarget(filename, n,
                                        ListAppliedMigrationFiles(ledger))
           files == ListMigrationsToDowngrade(Str(target.name), store, ledger)
           call == [NoRes EXCEPT !.op = "cli downgrade", !.target = filename,
                                 !.count = n]
       IN  IF made.error # "none" THEN CliStops(call, made.error)
           ELSE IF target.error # "none" THEN CliStops(call, target.error)
           ELSE IF files.error # "none" THEN CliStops(call, files.error)
           ELSE IF files.plan = <<>> THEN CliStops(call, "none")
           ELSE \E confirmed \in BOOLEAN :
                  IF ~confirmed
                  THEN CliStops([call EXCEPT !.plan = files.plan], "SystemExit")
                  ELSE \E fail \in 0..Len(files.plan), shown \in BOOLEAN :
                         LET out == Drain(LazyExecute(files.plan, FALSE),
                                          {fail}, store, ledger, schema)
                         IN  /\ ledger' = out.ledger
                             /\ schema' = out.schema
                             /\ run' = out.run
                             /\ res' = [call EXCEPT
                                    !.plan = files.plan,
                                    !.confirmed = TRUE,
                                    !.error = IF out.run.error # "none"
                                              THEN out.run.error
                                              ELSE IF shown THEN "none"
                                              ELSE "TypeError"]
    /\ UNCHANGED <<dir_exists, store, table_exists, tool>>

Spec == Init /\ [][Next]_vars

\* The tool used from the command line: the directory is edited and
\* `migrate init` is invoked, at any time and with any unit failing.
CliNext ==
    \/ \E n \in FileNames : AddFile(n)
    \/ \E n \in FileNames : RemoveFile(n)
    \/ \E ts \in 1..NumUnits, fail \in 0..NumUnits : CliInit(ts, {fail})

CliSpec == Init /\ [][CliNext]_vars

\* The upgrade and downgrade commands: the table is created by a
\* MigrationTool made with should_create_history_table, migration files
\* are added and deleted, and the two commands are invoked with any
\* target, count and answer, any one unit failing.
CommandNext ==
    \/ \E c \in BOOLEAN : Construct(c)
    \/ \E n \in UnitNames : AddFile(n)
    \/ \E n \in UnitNames : RemoveFile(n)
    \/ \E t \in Targets : CliUpgrade(t)
    \/ \E f \in Targets \ {None} : CliDowngrade(f, DefaultCount)
    \/ \E n \in MinCount..NumUnits : CliDowngrade(None, n)

CommandSpec == Init /\ [][CommandNext]_vars

\* The tool asked for its status: files are added and deleted, single
\* files are executed, and list_all_migrations is called at any time.
StatusNext ==
    \/ \E c \in BOOLEAN : Construct(c)
    \/ \E n \in FileNames : AddFile(n)
    \/ \E n \in FileNames : RemoveFile(n)
    \/ \E n \in FileNames, u \in BOOLEAN : ExecuteFile(n, u)
    \/ GenNext
    \/ \E l \in Limits : ListAll(l)

StatusSpec == Init /\ [][StatusNext]_vars

\* Generating migrations and upgrading to them.
GenerateNext ==
    \/ \E c \in BOOLEAN : Construct(c)
    \/ \E ts \in 1..NumUnits, d \in Descriptions : Generate(ts, d)
    \/ ResolveUpgrade(None)
    \/ ExecutePlan
    \/ GenNext

GenerateSpec == Init /\ [][GenerateNext]_vars

---------------------------------------------------------------------------
(* Properties *)

\* The identifiers recorded in the ledger.
Recorded(led) == {r.filename : r \in led}

\* The discovered identifiers, ascending.
Discovered == ListExistingMigrationFiles(store)

StrictlyAscending(s) == \A i, j \in 1..Len(s) : i < j => StrLess(s[i], s[j])
StrictlyDescending(s) == \A i, j \in 1..Len(s) : i < j => StrLess(s[j], s[i])

\* The state is the one a resolver call returned in: the directory and
\* the ledger are what the call read.
JustResolved(op) == res.op = op /\ run.state = "none"

\* C1: in every reachable state an identifier is in the ledger if and only
\* if its forward change is committed and not reverted since: the change
\* of a unit and its ledger insert or delete are committed together or
\* rolled back together.
C1_LedgerIffCommitted == Recorded(ledger) = schema

\* C1 witness: a run committed a unit and then stopped on a failure, whose
\* unit-of-work was rolled back.
C1_Witness ==
    /\ run.state = "failed"
    /\ run.error = "SQLAlchemyError"
    /\ Len(run.yielded) >= 1
    /\ ledger # {}

\* An upgrade plan: distinct identifiers, none of them in the ledger when
\* the run starts (as every list that list_migrations_to_upgrade returns).
UpgradePlanRun ==
    /\ run.state # "none"
    /\ run.upgrade
    /\ Range(run.files) \cap Recorded(run.before) = {}
    /\ \A i, j \in 1..Len(run.files) : i # j => run.files[i] # run.files[j]

\* C2: when the forward change of the k-th unit of an upgrade plan is the
\* first to fail, the ledger holds its previous contents plus units 1..k-1,
\* unit k is neither recorded nor applied, and no unit after k was loaded
\* or invoked.
C2_UpgradeStopsAtFirstFailure ==
    (UpgradePlanRun /\ run.error = "SQLAlchemyError") =>
        LET k == run.pos
        IN  /\ run.state = "failed"
            /\ k \in 1..Len(run.files)
            /\ Recorded(ledger) = Recorded(run.before)
                                    \cup Range(Prefix(run.files, k - 1))
            /\ run.files[k] \notin Recorded(ledger)
            /\ run.files[k] \notin schema
            /\ run.yielded = Prefix(run.files, k - 1)
            /\ run.loaded = Prefix(run.files, k)
            /\ run.invoked = Prefix(run.files, k)

\* C2 witness: a plan of three units failed at its second.
C2_Witness ==
    /\ UpgradePlanRun
    /\ run.error = "SQLAlchemyError"
    /\ Len(run.files) = 3
    /\ run.pos = 2

\* C3: with applied a subset of discovered, list_migrations_to_upgrade()
\* returns exactly the discovered identifiers that are not applied, in
\* ascending order, and none that is applied.
C3_UpgradeNoTarget ==
    (/\ JustResolved("upgrade")
     /\ ~res.target.given
     /\ Recorded(ledger) \subseteq Range(Discovered)) =>
        /\ res.error = "none"
        /\ Range(res.plan) = Range(Discovered) \ Recorded(ledger)
        /\ StrictlyAscending(res.plan)
        /\ Range(res.plan) \cap Recorded(ledger) = {}

\* C3 witness: some discovered units are applied and two are pending.
C3_Witness ==
    /\ JustResolved("upgrade")
    /\ ~res.target.given
    /\ Recorded(ledger) \subseteq Range(Discovered)
    /\ ledger # {}
    /\ Len(res.plan) >= 2

\* C4: for a target that is discovered, list_migrations_to_upgrade(target)
\* returns the pending identifiers whose position in discovered is at most
\* the target's, ascending; an applied target is no error; with
\* D = [m1, m2, m3], none applied and target m2 the plan is [m1, m2].
C4_UpgradeToTarget ==
    (/\ JustResolved("upgrade")
     /\ res.target.given
     /\ In(res.target.name, Discovered)) =>
        /\ res.error = "none"
        /\ Range(res.plan) =
               {f \in Range(Discovered) \ Recorded(ledger) :
                    Index(Discovered, f) <= Index(Discovered, res.target.name)}
        /\ StrictlyAscending(res.plan)
        /\ (/\ Discovered = <<UnitName(1), UnitName(2), UnitName(3)>>
            /\ ledger = {}
            /\ res.target.name = UnitName(2))
               => res.plan = <<UnitName(1), UnitName(2)>>

\* C4 witness: the target is already applied, a unit before it is pending
\* and a unit after it is pending and left out.
C4_Witness ==
    /\ JustResolved("upgrade")
    /\ res.target = Str(UnitName(2))
    /\ Recorded(ledger) = {UnitName(2)}
    /\ Discovered = <<UnitName(1), UnitName(2), UnitName(3)>>
    /\ res.plan = <<UnitName(1)>>

\* The step is a call of the resolver op: only a resolver call ends with
\* its result and no generator.
ResolverCall(op) ==
    /\ res'.op = op
    /\ run'.state = "none"
    /\ <<res', run'>> # <<res, run>>

\* A resolver call leaves everything but its own result as it was, and
\* holds no generator.
ResolverFrame ==
    /\ ledger' = ledger
    /\ schema' = schema
    /\ store' = store
    /\ table_exists' = table_exists
    /\ dir_exists' = dir_exists
    /\ run' = NoRun

\* C5: list_migrations_to_upgrade with a target that is not discovered
\* fails with the target-not-found error, returns no plan and changes
\* neither the ledger nor the store. (An empty string is no target:
\* `if target_filename:`.)
C5_UpgradeUnknownTarget ==
    [][(/\ ResolverCall("upgrade")
        /\ Truthy(res'.target)
        /\ ~In(res'.target.name, Discovered)) =>
           /\ res'.error = TargetNotFound
           /\ res'.plan = <<>>
           /\ ResolverFrame]_vars

\* C5 witness: an unknown target was rejected while units were applied
\* and others pending.
C5_Witness ==
    /\ JustResolved("upgrade")
    /\ Truthy(res.target)
    /\ ~In(res.target.name, Discovered)
    /\ res.error = TargetNotFound
    /\ ledger # {}
    /\ Range(Discovered) \ Recorded(ledger) # {}

\* C6: whatever the ledger, the directory and the target, a plan that
\* list_migrations_to_downgrade returns holds only applied identifiers, in
\* strictly descending order (so each at most once).
C6_DowngradePlanDescending ==
    (JustResolved("downgrade") /\ res.error = "none") =>
        /\ Range(res.plan) \subseteq Recorded(ledger)
        /\ StrictlyDescending(res.plan)
        /\ Cardinality(Range(res.plan)) = Len(res.plan)

\* C6 witness: a plan of two units, below an applied target whose own
\* file is gone from the directory.
C6_Witness ==
    /\ JustResolved("downgrade")
    /\ res.error = "none"
    /\ Len(res.plan) >= 2
    /\ ~(Recorded(ledger) \subseteq Range(Discovered))

\* The run is the complete, failure-free execution of the plan the last
\* resolver call returned, in the resolver's direction.
PlanExecuted(op) ==
    /\ res.op = op
    /\ res.error = "none"
    /\ run.state = "done"
    /\ run.error = "none"
    /\ run.files = res.plan
    /\ run.upgrade = (op = "upgrade")

\* C7: list_migrations_to_downgrade() returns every applied identifier in
\* descending order, and the ledger is empty once that plan has been
\* executed to completion.
C7_DowngradeNoTarget ==
    /\ (JustResolved("downgrade") /\ ~res.target.given) =>
           /\ res.error = "none"
           /\ Range(res.plan) = Recorded(ledger)
           /\ StrictlyDescending(res.plan)
    /\ (PlanExecuted("downgrade") /\ ~res.target.given) => ledger = {}

\* C7 witness: a plan of three units has been executed to completion.
C7_Witness ==
    /\ PlanExecuted("downgrade")
    /\ ~res.target.given
    /\ Len(run.yielded) = 3

\* C8: for a target that is discovered and applied,
\* list_migrations_to_downgrade(target) returns the applied identifiers
\* strictly greater than the target, descending, never the target itself,
\* and nothing when the target is the last applied; once the plan is
\* executed the target is the current revision; with D = A = [m1, m2, m3]
\* and target m1 the plan is [m3, m2].
C8_DowngradeToTarget ==
    LET t == res.target.name
        known == /\ res.target.given
                 /\ In(t, Discovered)
                 /\ t \in Recorded(ledger)
    IN  /\ (JustResolved("downgrade") /\ known) =>
               /\ res.error = "none"
               /\ Range(res.plan) = {f \in Recorded(ledger) : StrLess(t, f)}
               /\ StrictlyDescending(res.plan)
               /\ ~In(t, res.plan)
               /\ GetCurrentRevision(ledger) = t => res.plan = <<>>
               /\ (/\ Discovered = <<UnitName(1), UnitName(2), UnitName(3)>>
                   /\ Recorded(ledger) = Range(Discovered)
                   /\ t = UnitName(1))
                      => res.plan = <<UnitName(3), UnitName(2)>>
        /\ (PlanExecuted("downgrade") /\ Truthy(res.target)) =>
               GetCurrentRevision(ledger) = t

\* C8 witness: two units above the target have been reverted.
C8_Witness ==
    /\ PlanExecuted("downgrade")
    /\ res.target = Str(UnitName(1))
    /\ run.yielded = <<UnitName(3), UnitName(2)>>

\* C9: list_migrations_to_downgrade(target) fails with the
\* target-not-found error when the target is not discovered, and with the
\* target-not-applied error when it is discovered and not in the ledger;
\* either way there is no plan, nothing is executed and the ledger is
\* unchanged. (An empty string is no target.)
C9_DowngradeBadTarget ==
    [][(ResolverCall("downgrade") /\ Truthy(res'.target)) =>
           LET t == res'.target.name
           IN  /\ ~In(t, Discovered) =>
                      /\ res'.error = TargetNotFound
                      /\ res'.plan = <<>>
                      /\ ResolverFrame
               /\ (In(t, Discovered) /\ t \notin Recorded(ledger)) =>
                      /\ res'.error = TargetNotApplied
                      /\ res'.plan = <<>>
                      /\ ResolverFrame]_vars

\* C9 witness: a target that is applied, and whose file is gone from the
\* directory, was rejected as not found.
C9_Witness ==
    /\ JustResolved("downgrade")
    /\ Truthy(res.target)
    /\ res.target.name \in Recorded(ledger)
    /\ res.error = TargetNotFound

\* C9 witness, second case: a discovered target that is not applied was
\* rejected while other units were applied.
C9_WitnessNotApplied ==
    /\ JustResolved("downgrade")
    /\ res.error = TargetNotApplied
    /\ ledger # {}

\* C10: once the plan of list_migrations_to_upgrade() has been executed to
\* completion without failure, and the directory is as it was,
\* list_migrations_to_upgrade() returns the empty plan.
C10_UpgradeIdempotent ==
    (PlanExecuted("upgrade") /\ ~res.target.given) =>
        ListMigrationsToUpgrade(None, store, ledger) = Return(<<>>)

\* C10 witness: a first run applied three units.
C10_Witness ==
    /\ PlanExecuted("upgrade")
    /\ ~res.target.given
    /\ Len(run.yielded) = 3

\* The run has executed with downgrade, without failure, every unit that
\* the run before it executed with upgrade.
RoundTripDone ==
    /\ run.origin.known
    /\ run.state = "done"
    /\ run.error = "none"

\* C11: when a unit that is not in the ledger is executed with upgrade and
\* then with downgrade, both succeeding, list_applied_migration_files()
\* is what it was before the upgrade.
C11_RoundTrip ==
    RoundTripDone =>
        /\ Range(run.files) \cap Recorded(run.origin.ledger) = {}
        /\ ListAppliedMigrationFiles(ledger)
               = ListAppliedMigrationFiles(run.origin.ledger)
        /\ ledger = run.origin.ledger

\* C11 witness: one unit was applied and reverted on top of a ledger that
\* held other units.
C11_Witness ==
    /\ RoundTripDone
    /\ Len(run.yielded) = 1
    /\ run.origin.ledger # {}

\* The run executes the plan that the last resolver call returned, in the
\* resolver's direction, from the ledger that the resolver read.
ResolvedPlanRun ==
    /\ res.op \in {"upgrade", "downgrade"}
    /\ res.error = "none"
    /\ run.state # "none"
    /\ ~run.origin.known
    /\ run.files = res.plan
    /\ run.upgrade = (res.op = "upgrade")
    /\ IF run.upgrade
       THEN Range(run.files) \cap Recorded(run.before) = {}
       ELSE Range(run.files) \subseteq Recorded(run.before)

\* s starts with p
IsPrefix(p, s) == Len(p) <= Len(s) /\ Prefix(s, Len(p)) = p

\* C12: when the run of a resolved plan [u1..un] stops because uk failed,
\* and nothing else changes, the resolver called again with the same
\* target returns exactly [uk..un], for upgrade and for downgrade; called
\* with no target it returns a plan that starts with [uk..un] (upgrade)
\* or at uk (downgrade); no unit that the run committed is in the new
\* plan.
C12_Resumable ==
    (ResolvedPlanRun /\ run.state = "failed") =>
        LET k == run.pos
            rest == SubSeq(run.files, k, Len(run.files))
            again == IF run.upgrade
                     THEN ListMigrationsToUpgrade(res.target, store, ledger)
                     ELSE ListMigrationsToDowngrade(res.target, store, ledger)
            untargeted == IF run.upgrade
                          THEN ListMigrationsToUpgrade(None, store, ledger)
                          ELSE ListMigrationsToDowngrade(None, store, ledger)
        IN  /\ k \in 1..Len(run.files)
            /\ again = Return(rest)
            /\ untargeted.error = "none"
            /\ IF run.upgrade
               THEN IsPrefix(rest, untargeted.plan)
               ELSE untargeted.plan # <<>> /\ untargeted.plan[1] = run.files[k]
            /\ Range(again.plan) \cap Range(run.yielded) = {}
            /\ Range(untargeted.plan) \cap Range(run.yielded) = {}

\* C12 witness: an upgrade to a target stopped at the second of three
\* units, the first being committed.
C12_Witness ==
    /\ ResolvedPlanRun
    /\ run.state = "failed"
    /\ run.error = "SQLAlchemyError"
    /\ run.upgrade
    /\ Truthy(res.target)
    /\ Len(run.files) = 3
    /\ run.pos = 2

\* C12 witness, downgrade: a downgrade to a target stopped at its second
\* unit, the first being reverted.
C12_WitnessDowngrade ==
    /\ ResolvedPlanRun
    /\ run.state = "failed"
    /\ ~run.upgrade
    /\ Truthy(res.target)
    /\ Len(run.files) = 2
    /\ run.pos = 2

\* The identifiers whose timestamp prefix parses.
Dated(S) == {f \in S : ParseFilename(f).error = "none"}

\* a was created before b.
Earlier(a, b) == ParseFilename(a).created_at < ParseFilename(b).created_at

\* C13: in the upgrade run of a resolved plan, of two discovered pending
\* units the one with the earlier timestamp prefix is executed and
\* committed first, whatever their descriptions; what the executor has
\* invoked and committed is always a prefix of the plan.
C13_ChronologicalOrder ==
    (ResolvedPlanRun /\ run.upgrade) =>
        LET pending == Dated(Range(Discovered) \ Recorded(run.before))
        IN  /\ IsPrefix(run.invoked, res.plan)
            /\ IsPrefix(run.yielded, run.invoked)
            /\ Recorded(ledger) = Recorded(run.before) \cup Range(run.yielded)
            /\ \A a, b \in pending :
                   (Earlier(a, b) /\ In(b, run.invoked)) =>
                       /\ In(a, run.yielded)
                       /\ Index(run.invoked, a) < Index(run.invoked, b)
                       /\ a \in schema

\* C13 witness: three units were executed in the order of their
\* timestamps, which is the reverse of the order of their descriptions.
C13_Witness ==
    /\ ResolvedPlanRun
    /\ run.upgrade
    /\ Len(run.yielded) = 3
    /\ \A i, j \in 1..3 : i < j =>
           /\ Earlier(run.yielded[i], run.yielded[j])
           /\ StrLess(ParseFilename(run.yielded[j]).description,
                      ParseFilename(run.yielded[i]).description)

\* The capability of the unit at run.pos raised, and the exception left
\* the run.
CapabilityFailed ==
    /\ run.state = "failed"
    /\ run.error = "SQLAlchemyError"

\* C14: when a capability fails during execute, upgrade or downgrade, the
\* failure that reaches the caller carries the identifier of the unit
\* that failed.
C14_FailureTagged ==
    CapabilityFailed => run.named = Str(run.files[run.pos])

\* C14 witness: the upgrade of the second of three units failed after
\* the first was committed.
C14_Witness ==
    /\ CapabilityFailed
    /\ run.upgrade
    /\ Len(run.files) = 3
    /\ run.pos = 2
    /\ run.yielded = Prefix(run.files, 1)

\* load_migration_module raised for the unit at run.pos.
LoadFailed == run.error \in {"FileNotFoundError", "TypeError"}

\* C15: when loading unit uk of a plan fails (no such file, or a file
\* that is no migration module), the run is over: the capability of uk is
\* not invoked, nothing after uk is loaded or executed, and the ledger is
\* what it was after u1..u(k-1) committed, which stay committed.
C15_LoadFailureAborts ==
    LoadFailed =>
        LET k == run.pos
            done == Prefix(run.files, k - 1)
        IN  /\ run.state = "failed"
            /\ k \in 1..Len(run.files)
            /\ LoadMigrationModule(run.files[k], store) = run.error
            /\ run.loaded = done
            /\ run.invoked = done
            /\ run.yielded = done
            /\ Recorded(ledger) = IF run.upgrade
                                  THEN Recorded(run.before) \cup Range(done)
                                  ELSE Recorded(run.before) \ Range(done)
            /\ schema = Recorded(ledger)

\* C15 witness: a downgrade plan of three units met, at its second unit,
\* a file that is gone from the directory; the first stays reverted and
\* the third stays applied.
C15_Witness ==
    /\ LoadFailed
    /\ run.error = "FileNotFoundError"
    /\ ~run.upgrade
    /\ Len(run.files) = 3
    /\ run.pos = 2
    /\ run.files[1] \notin Recorded(ledger)
    /\ run.files[3] \in Recorded(ledger)

\* C15 witness, second case: an upgrade plan met a file that is no
\* migration module after it committed a unit.
C15_WitnessMalformed ==
    /\ LoadFailed
    /\ run.error = "TypeError"
    /\ run.upgrade
    /\ run.pos = 2
    /\ run.files[1] \in Recorded(ledger)

\* The step is a call of MigrationTool(...).
ConstructCall ==
    /\ res'.op = "construct"
    /\ run' = NoRun
    /\ <<dir_exists, store, ledger, schema>>' = <<dir_exists, store, ledger, schema>>

\* The step is a ledger, resolver, executor or status operation: it
\* returns a result, makes or advances a generator, or writes the
\* database, and is no edit of the directory and no constructor call.
OperationStep ==
    /\ store' = store
    /\ ~ConstructCall
    /\ <<res, run, ledger, schema>>' # <<res, run, ledger, schema>>

\* C16: no ledger, resolver, executor or status operation runs, or
\* changes anything, while the table migration_history is absent: a tool
\* exists only when the table does, and a tool asked for without
\* creating the table fails with the not-initialized error when the table
\* is absent.
C16_TableRequired ==
    /\ [](tool => table_exists)
    /\ [][OperationStep => (tool /\ table_exists /\ table_exists')]_vars
    /\ [][(ConstructCall /\ ~table_exists') =>
              /\ tool' = FALSE
              /\ dir_exists => res'.error = NotInitialized
              /\ ~dir_exists => res'.error = DirectoryNotFound]_vars

\* C16 witness: a tool was asked for while the table was absent, and the
\* call failed with the not-initialized error.
C16_Witness ==
    /\ res.op = "construct"
    /\ res.error = NotInitialized
    /\ dir_exists
    /\ Range(Discovered) # {}
    /\ ~table_exists
    /\ ~tool

\* The step is an invocation of `migrate init`.
InitCall == res'.op = "init"

ListCall ==
    /\ res'.op = "list"
    /\ run' = NoRun
    /\ <<res', run'>> # <<res, run>>

\* What list_all_migrations is to return for the limit, by the ledger and
\* the directory: the file names, and how many of them are applied.
StatusExpected(limit) ==
    LET A == ListAppliedMigrationFiles(ledger)
        n == IF limit.given THEN Min(limit.n, Len(A)) ELSE Len(A)
        Pending(f) == f \notin Recorded(ledger)
    IN  [applied |-> SubSeq(A, Len(A) - n + 1, Len(A)),
         pending |-> SelectSeq(Discovered, Pending)]

\* The rows are the expected ones: the applied identifiers with their
\* executed_at, then the pending ones without.
StatusRows(rows, expected) ==
    LET n == Len(expected.applied)
        files == expected.applied \o expected.pending
    IN  /\ Len(rows) = Len(files)
        /\ \A i \in 1..Len(rows) :
               /\ rows[i].filename = files[i]
               /\ (i <= n) => rows[i].executed_at # NoTime
               /\ (i > n) => rows[i].executed_at = NoTime

\* C18: list_all_migrations(history_limit = n), n >= 1, returns the
\* min(n, |A|) greatest applied identifiers, ascending, each with its
\* executed_at, then all pending identifiers (discovered and not
\* applied), ascending, each without executed_at; with no limit all
\* applied identifiers come first; the call changes neither the ledger
\* nor the directory.
C18_ListAllMigrations ==
    [][(ListCall /\ (res'.limit.given => res'.limit.n >= 1)) =>
           /\ res'.error = "none"
           /\ StatusRows(res'.rows, StatusExpected(res'.limit))
           /\ ledger' = ledger
           /\ store' = store]_vars

\* C18 witness: list_all_migrations(history_limit=1) was called with two
\* units applied and a file pending whose name has no timestamp, and
\* raised.
C18_Witness ==
    /\ res.op = "list"
    /\ res.limit = Limit(1)
    /\ res.error = "ValueError"
    /\ Cardinality(ledger) = 2
    /\ In(Readme, Discovered)

\* C19: list_all_migrations never fails with the malformed-name error
\* on a name that the directory lists or the ledger holds: the timestamp
\* prefix of every name that list_existing_migration_files or
\* list_applied_migration_files returns parses.
C19_StatusParsesAll ==
    (res.op = "list" /\ run.state = "none") =>
        /\ res.error # "ValueError"
        /\ \A f \in Range(ListExistingMigrationFiles(store))
                     \cup Range(ListAppliedMigrationFiles(ledger)) :
               ParseFilename(f).error = "none"

\* C19 witness: list_all_migrations() raised the ValueError of
\* parse_filename on a file that list_existing_migration_files lists.
C19_Witness ==
    /\ res.op = "list"
    /\ run.state = "none"
    /\ res.limit = NoLimit
    /\ res.error = "ValueError"
    /\ \E f \in Range(ListExistingMigrationFiles(store)) :
           ParseFilename(f).error = "ValueError"

\* r is the greatest identifier of the ledger, or the empty string when
\* the ledger is empty.
GreatestApplied(r) ==
    IF ledger = {}
    THEN r = EmptyStr
    ELSE /\ r \in Recorded(ledger)
         /\ \A f \in Recorded(ledger) : f = r \/ StrLess(f, r)

\* The plan of list_migrations_to_upgrade with no target has been
\* executed to completion.
FullUpgradeDone == PlanExecuted("upgrade") /\ ~Truthy(res.target)

\* The plan of list_migrations_to_downgrade(target) has been executed to
\* completion.
DowngradeToTargetDone == PlanExecuted("downgrade") /\ Truthy(res.target)

\* C20 as stated: get_current_revision() returns the greatest identifier
\* of the ledger, or the empty string when the ledger is empty; after a
\* successful full upgrade it is the last discovered identifier, and
\* after a successful downgrade to target t it is t.
C20_CurrentRevisionAsStated ==
    /\ GreatestApplied(GetCurrentRevision(ledger))
    /\ (FullUpgradeDone /\ Discovered # <<>>) =>
           GetCurrentRevision(ledger) = Discovered[Len(Discovered)]
    /\ DowngradeToTargetDone => GetCurrentRevision(ledger) = res.target.name

\* C20, amended: get_current_revision() returns the greatest identifier
\* of the ledger, or the empty string when the ledger is empty; after a
\* successful full upgrade it is the last discovered identifier provided
\* every applied identifier is discovered; after a successful downgrade
\* to target t it is t.
C20_CurrentRevision ==
    /\ GreatestApplied(GetCurrentRevision(ledger))
    /\ (/\ FullUpgradeDone
        /\ Discovered # <<>>
        /\ Recorded(ledger) \subseteq Range(Discovered)) =>
           GetCurrentRevision(ledger) = Discovered[Len(Discovered)]
    /\ DowngradeToTargetDone => GetCurrentRevision(ledger) = res.target.name

\* C20 witness: a full upgrade added two units to a ledger that held one,
\* every applied unit being discovered.
C20_Witness ==
    /\ FullUpgradeDone
    /\ Len(run.yielded) = 2
    /\ run.before # {}
    /\ Recorded(ledger) \subseteq Range(Discovered)
    /\ GetCurrentRevision(ledger) = Discovered[Len(Discovered)]

\* C20 witness, downgrade: a downgrade to a target reverted one unit and
\* the target is the current revision.
C20_WitnessDowngrade ==
    /\ DowngradeToTargetDone
    /\ Len(run.yielded) = 1
    /\ GetCurrentRevision(ledger) = res.target.name

\* The step is an invocation of `migrate downgrade`.
DowngradeCommand ==
    /\ res'.op = "cli downgrade"
    /\ <<res', run', ledger', schema'>> # <<res, run, ledger, schema>>

\* The n greatest of the applied identifiers, descending.
Greatest(applied, n) ==
    Reversed(SubSeq(applied, Len(applied) - n + 1, Len(applied)))

C22_DirectoryMissing ==
    ~dir_exists =>
        /\ ~table_exists
        /\ ~tool
        /\ store = {}
        /\ ledger = {}
        /\ schema = {}
        /\ run = NoRun
        /\ res.op = "init" =>
               /\ res.error = DirectoryNotFound
               /\ ExitCode(res.error) = 1
               /\ res.plan = <<>>

\* C22 witness: `migrate init` was invoked without a migrations
\* directory, and failed.
C22_Witness ==
    /\ ~dir_exists
    /\ res.op = "init"
    /\ res.error = DirectoryNotFound
    /\ ~table_exists

\* C23: with no target, a resolver call over an empty directory or an
\* empty ledger never raises; list_migrations_to_upgrade over an empty
\* directory and list_migrations_to_downgrade over an empty ledger return
\* the empty plan; executing an empty plan invokes nothing and changes
\* nothing.
C23_EmptyPlans ==
    /\ \A op \in {"upgrade", "downgrade"} :
           (/\ JustResolved(op)
            /\ ~Truthy(res.target)
            /\ Discovered = <<>> \/ ledger = {}) => res.error = "none"
    /\ (JustResolved("upgrade") /\ ~Truthy(res.target) /\ Discovered = <<>>)
           => res.plan = <<>>
    /\ (JustResolved("downgrade") /\ ~Truthy(res.target) /\ ledger = {})
           => res.plan = <<>>
    /\ (run.state # "none" /\ run.files = <<>>) =>
           /\ run.state \in {"created", "done"}
           /\ run.error = "none"
           /\ run.loaded = <<>>
           /\ run.invoked = <<>>
           /\ run.yielded = <<>>
           /\ ledger = run.before
           /\ schema = Recorded(run.before)

\* C23 witness: the empty plan of list_migrations_to_upgrade() over an
\* empty directory, with units in the ledger, has been executed.
C23_Witness ==
    /\ res.op = "upgrade"
    /\ ~Truthy(res.target)
    /\ Discovered = <<>>
    /\ ledger # {}
    /\ run.files = <<>>
    /\ run.state = "done"

\* C23 witness, downgrade: the empty plan of
\* list_migrations_to_downgrade() over an empty ledger has been executed.
C23_WitnessDowngrade ==
    /\ res.op = "downgrade"
    /\ ~Truthy(res.target)
    /\ ledger = {}
    /\ Discovered # <<>>
    /\ run.files = <<>>
    /\ run.state = "done"

\* A call of generate_migration has returned or raised.
GenerateCall == res'.op = "generate" /\ (res' # res \/ store' # store)

\* C24: generate_migration(description) adds exactly one new name to the
\* discovered files, the timestamp, "__" and the description with "_" for
\* each space; the ledger is unchanged; the new name is in the next
\* list_migrations_to_upgrade() and comes after every name of an earlier
\* timestamp.
C24_GenerateAddsOne ==
    [][GenerateCall =>
        \E ts \in 1..NumUnits :
            LET name == Timestamp(ts) \o Sep
                            \o ReplaceSpaces(res'.target.name) \o PyExt
                plan == ListMigrationsToUpgrade(None, store', ledger').plan
                EarlierThan(f) == /\ ParseFilename(f).error = "none"
                                  /\ ParseFilename(f).created_at < ts
            IN  /\ res'.error = "none"
                /\ ~In(name, Discovered)
                /\ Range(Discovered') = Range(Discovered) \cup {name}
                /\ ledger' = ledger
                /\ In(name, plan)
                /\ \A i \in 1..Len(plan) :
                       EarlierThan(plan[i]) => i < Index(plan, name)
                /\ \A i \in 1..Len(Discovered') :
                       EarlierThan(Discovered'[i])
                           => i < Index(Discovered', name)]_vars

\* C24 witness: with units applied, a migration has been generated; it is
\* pending and follows a file of an earlier timestamp whose description
\* sorts after its own.
C24_Witness ==
    /\ res.op = "generate"
    /\ res.error = "none"
    /\ ledger # {}
    /\ \E i \in 1..Len(Discovered) :
           /\ res.plan = <<Discovered[i]>>
           /\ In(Discovered[i], ListMigrationsToUpgrade(None, store, ledger).plan)
           /\ \E j \in 1..(i - 1) :
                  /\ ParseFilename(Discovered[j]).created_at
                         < ParseFilename(Discovered[i]).created_at
                  /\ StrLess(ParseFilename(Discovered[i]).description,
                             ParseFilename(Discovered[j]).description)

\* The units that are committed when the generator r has produced its
\* yielded files and nothing else has happened since the call.
AfterYielded(r) ==
    IF r.upgrade THEN Recorded(r.before) \cup Range(r.yielded)
    ELSE Recorded(r.before) \ Range(r.yielded)

\* C25: lazy_execute is lazy and sequential. A generator that was never
\* advanced has loaded and invoked nothing and the database is as at the
\* call; the files produced are a prefix of the list, in its order; at a
\* yield every file taken so far has been loaded, invoked, committed and
\* produced, and the next file has been neither loaded nor invoked; the
\* database holds exactly the effect of the files produced.
C25_LazySequential ==
    /\ run.state = "created" =>
           /\ run.pos = 0
           /\ run.loaded = <<>> /\ run.invoked = <<>> /\ run.yielded = <<>>
           /\ ledger = run.before
           /\ schema = Recorded(run.before)
    /\ run.state # "none" =>
           /\ IsPrefix(run.yielded, run.files)
           /\ IsPrefix(run.loaded, run.files)
           /\ IsPrefix(run.invoked, run.loaded)
           /\ Len(run.loaded) <= Len(run.yielded) + 1
           /\ Recorded(ledger) = AfterYielded(run)
           /\ schema = AfterYielded(run)
    /\ run.state = "suspended" =>
           /\ run.pos >= 1
           /\ run.yielded = Prefix(run.files, run.pos)
           /\ run.loaded = run.yielded
           /\ run.invoked = run.yielded
    /\ run.state = "done" => run.yielded = run.files

\* C25 witness: an upgrade run of two pending files or more is at its
\* first yield: the first file is committed, the second is not.
C25_Witness ==
    /\ run.state = "suspended"
    /\ run.upgrade
    /\ run.pos = 1
    /\ Len(run.files) >= 2
    /\ run.files[1] \in Recorded(ledger)
    /\ run.files[2] \notin schema
    /\ run.files[2] \notin Recorded(ledger)

\* C25 witness, not consumed: after an upgrade run that committed a unit,
\* a generator over a plan with files in it exists and was never advanced.
C25_WitnessNotConsumed ==
    /\ run.state = "created"
    /\ run.files # <<>>
    /\ ledger # {}

\* A downgrade plan: distinct identifiers, descending, all of them in the
\* ledger when the run starts.
DowngradePlanRun ==
    /\ run.state # "none"
    /\ ~run.upgrade
    /\ Range(run.files) \subseteq Recorded(run.before)
    /\ StrictlyDescending(run.files)

\* C26: when the backward change of the k-th unit of a downgrade plan is
\* the first to fail, the ledger has lost units 1..k-1 and nothing else,
\* so it still holds units k..n; the change of unit k is still in place;
\* and no unit after k was loaded or invoked.
C26_DowngradeStopsAtFirstFailure ==
    (DowngradePlanRun /\ run.error = "SQLAlchemyError") =>
        LET k == run.pos
            n == Len(run.files)
        IN  /\ run.state = "failed"
            /\ k \in 1..n
            /\ Recorded(ledger) = Recorded(run.before)
                                    \ Range(Prefix(run.files, k - 1))
            /\ Range(Prefix(run.files, k - 1)) \cap Recorded(ledger) = {}
            /\ Range(SubSeq(run.files, k, n)) \subseteq Recorded(ledger)
            /\ Range(SubSeq(run.files, k, n)) \subseteq schema
            /\ Range(Prefix(run.files, k - 1)) \cap schema = {}
            /\ run.yielded = Prefix(run.files, k - 1)
            /\ run.loaded = Prefix(run.files, k)
            /\ run.invoked = Prefix(run.files, k)

\* C26 witness: a downgrade plan of three units failed at its second.
C26_Witness ==
    /\ DowngradePlanRun
    /\ run.error = "SQLAlchemyError"
    /\ Len(run.files) = 3
    /\ run.pos = 2

\* C27: a `migrate downgrade` that does not reach execution, because the
\* user declines, because there is nothing to downgrade or because the
\* command is rejected, leaves the ledger and the database as they were:
\* no module is loaded, no backward change is invoked and no history
\* record is deleted.
C27_DowngradeNotExecuted ==
    [][(res'.op = "cli downgrade" /\ ~res'.confirmed) =>
           /\ ledger' = ledger
           /\ schema' = schema
           /\ run'.loaded = <<>>
           /\ run'.invoked = <<>>
           /\ run'.yielded = <<>>]_vars

\* C27 witness: the user declined the downgrade of applied units that the
\* command showed.
C27_Witness ==
    /\ res.op = "cli downgrade"
    /\ ~res.confirmed
    /\ res.error = "SystemExit"
    /\ res.plan # <<>>
    /\ Range(res.plan) \subseteq Recorded(ledger)

\* C27 witness, rejected: the filename given is applied and its file is
\* gone, so the command stops with the error of the resolver.
C27_WitnessRejected ==
    /\ res.op = "cli downgrade"
    /\ ~res.confirmed
    /\ res.error = TargetNotFound
    /\ ledger # {}

\* The file that an upgrade run took last, and invoked, was in the ledger
\* when the run started.
UpgradeOfApplied ==
    /\ run.state # "none"
    /\ run.upgrade
    /\ run.pos >= 1
    /\ Len(run.invoked) = run.pos
    /\ run.files[run.pos] \in Recorded(run.before)

\* C28: the ledger holds one record at most for a filename, and no
\* upgrade run produces a file that was in the ledger at its start. The
\* upgrade of a file that is already in the ledger fails, at the insert
\* when its forward change does not raise first; the forward change is
\* rolled back, the ledger keeps its record and gains none, and no later
\* file of the list is loaded or invoked.
C28_OneRecordPerFile ==
    /\ \A g, h \in ledger : g.filename = h.filename => g = h
    /\ (run.state # "none" /\ run.upgrade) =>
           Range(run.yielded) \cap Recorded(run.before) = {}
    /\ UpgradeOfApplied =>
           LET k == run.pos
           IN  /\ run.state = "failed"
               /\ run.error \in {"IntegrityError", "SQLAlchemyError"}
               /\ run.yielded = Prefix(run.files, k - 1)
               /\ run.loaded = Prefix(run.files, k)
               /\ run.invoked = Prefix(run.files, k)
               /\ run.before \subseteq ledger
               /\ Recorded(ledger) = AfterYielded(run)
               /\ schema = AfterYielded(run)

\* C28 witness: a plan of two files, all applied by its first run, was
\* executed a second time and stopped at the insert of its first file.
C28_Witness ==
    /\ UpgradeOfApplied
    /\ run.error = "IntegrityError"
    /\ Len(run.files) >= 2
    /\ Range(run.files) \subseteq Recorded(run.before)
    /\ run.pos = 1

\* The file that a downgrade run took last, and invoked, was not in the
\* ledger when the run started.
DowngradeOfUnapplied ==
    /\ run.state # "none"
    /\ ~run.upgrade
    /\ run.pos >= 1
    /\ Len(run.invoked) = run.pos
    /\ run.files[run.pos] \notin Recorded(run.before)

\* C29: the downgrade of a file that is not in the ledger, when its
\* backward change does not raise, does not fail: the backward change is
\* invoked and committed, the delete matches no record, so the ledger
\* keeps every record that the files before it in the list did not
\* remove, and the file is produced.
C29_DowngradeOfUnapplied ==
    (DowngradeOfUnapplied /\ run.error # "SQLAlchemyError") =>
        LET k == run.pos
        IN  /\ run.error = "none"
            /\ run.state \in {"suspended", "done"}
            /\ run.invoked = Prefix(run.files, k)
            /\ run.yielded = Prefix(run.files, k)
            /\ ledger = {h \in run.before :
                            h.filename \notin Range(Prefix(run.files, k - 1))}
            /\ run.files[k] \notin schema

\* C29 witness: with other units applied, the downgrade of one file that
\* is not applied has run to its end and the ledger is as it was.
C29_Witness ==
    /\ DowngradeOfUnapplied
    /\ run.state = "done"
    /\ Len(run.files) = 1
    /\ run.yielded = run.files
    /\ run.before # {}
    /\ ledger = run.before

\* The applied identifiers whose file is not in the directory.
Orphans == Recorded(ledger) \ Range(Discovered)

\* The run of the plan of list_migrations_to_downgrade() has taken, as
\* its k-th file, one that is not in the directory.
DowngradeMetOrphan ==
    /\ ResolvedPlanRun
    /\ res.op = "downgrade"
    /\ ~Truthy(res.target)
    /\ run.pos >= 1
    /\ File(run.files[run.pos]) \notin store

\* C30: when the ledger holds an identifier whose file is gone,
\* list_migrations_to_upgrade never returns it and, without a target,
\* does not raise; list_migrations_to_downgrade() returns every applied
\* identifier, that one included; and the run of that plan stops at it
\* with the failure of the load: it and every file after it in the plan
\* are still in the ledger, and the files before it stay reverted.
C30_AppliedFileGone ==
    /\ JustResolved("upgrade") =>
           /\ Range(res.plan) \cap Orphans = {}
           /\ ~Truthy(res.target) => res.error = "none"
    /\ (JustResolved("downgrade") /\ ~Truthy(res.target)) =>
           /\ res.error = "none"
           /\ Orphans \subseteq Range(res.plan)
           /\ res.plan = Reversed(ListAppliedMigrationFiles(ledger))
    /\ DowngradeMetOrphan =>
           LET k == run.pos
               n == Len(run.files)
           IN  /\ run.state = "failed"
               /\ run.error = "FileNotFoundError"
               /\ run.loaded = Prefix(run.files, k - 1)
               /\ run.invoked = Prefix(run.files, k - 1)
               /\ run.yielded = Prefix(run.files, k - 1)
               /\ Range(SubSeq(run.files, k, n)) \cap Recorded(run.before)
                      \subseteq Recorded(ledger)
               /\ Range(Prefix(run.files, k - 1)) \cap Recorded(ledger) = {}
               /\ Range(Prefix(run.files, k - 1)) \cap schema = {}
               /\ schema = Recorded(ledger)

\* C30 witness: three units are applied and the file of the second is
\* gone; the run of list_migrations_to_downgrade() reverted the third and
\* stopped at the second, which stays in the ledger with the first.
C30_Witness ==
    /\ DowngradeMetOrphan
    /\ Len(run.files) = 3
    /\ run.pos = 2
    /\ Cardinality(run.before) = 3
    /\ run.files[1] \notin Recorded(ledger)
    /\ run.files[2] \in Recorded(ledger)
    /\ run.files[3] \in Recorded(ledger)

\* C30 witness, resolvers: with an applied file gone and a file pending,
\* list_migrations_to_upgrade() has returned the pending file alone.
C30_WitnessUpgrade ==
    /\ JustResolved("upgrade")
    /\ ~Truthy(res.target)
    /\ Orphans # {}
    /\ res.plan # <<>>

\* The step is `migrate downgrade` without a filename.
DowngradeByCount == res'.op = "cli downgrade" /\ ~Truthy(res'.target)

\* C31: `migrate downgrade -n n` without a filename and with n >= |A|
\* fails before a plan is resolved: a tool that can be made stops with
\* IndexError, nothing is shown, asked or executed, and the ledger and
\* the database are unchanged. So for no n does the count form revert the
\* oldest applied unit.
C31_CountBeyondApplied ==
    [][LET A == ListAppliedMigrationFiles(ledger)
       IN  DowngradeByCount =>
               /\ res'.count >= Len(A) =>
                      /\ res'.error # "none"
                      /\ MigrationToolInit(FALSE, dir_exists, table_exists).error
                             = "none" => res'.error = "IndexError"
                      /\ res'.plan = <<>>
                      /\ ~res'.confirmed
                      /\ run' = NoRun
                      /\ ledger' = ledger
                      /\ schema' = schema
               /\ A = <<>> => res'.error # "none" /\ ledger' = ledger
               /\ A # <<>> =>
                      /\ A[1] \in Recorded(ledger')
                      /\ A[1] \notin Range(res'.plan)
                      /\ A[1] \in schema']_vars

\* C31 witness: with exactly one unit applied, `migrate downgrade` with
\* the default count stopped with IndexError.
C31_Witness ==
    /\ res.op = "cli downgrade"
    /\ ~Truthy(res.target)
    /\ res.count = DefaultCount
    /\ res.error = "IndexError"
    /\ Cardinality(ledger) = 1

\* C31 witness, oldest unit: with three units applied, the count form
\* reverted two, the most it can.
C31_WitnessOldestStays ==
    /\ res.op = "cli downgrade"
    /\ ~Truthy(res.target)
    /\ res.confirmed
    /\ run.state = "done"
    /\ Cardinality(run.before) = 3
    /\ Len(run.yielded) = 2
    /\ res.count = -1

\* C32: a `migrate init` that succeeds where the table migration_history
\* did not exist has created the table, written one new file named
\* <timestamp>__first_migration_empty.py, and applied every pending file
\* in ascending order, the files that were in the directory before
\* included: afterwards nothing is pending and every discovered file is
\* in the ledger.
C32_InitAppliesAll ==
    [][(InitCall /\ ~table_exists /\ res'.error = "none") =>
           /\ table_exists'
           /\ \E ts \in 1..NumUnits :
                  LET name == GeneratedName(ts, FirstMigrationEmpty)
                  IN  /\ File(name) \notin store
                      /\ store' = store \cup {File(name)}
                      /\ In(name, run'.yielded)
           /\ run'.state = "done"
           /\ run'.upgrade
           /\ run'.files = res'.plan
           /\ run'.yielded = run'.files
           /\ StrictlyAscending(run'.yielded)
           /\ Range(run'.yielded) = Range(Discovered') \ Recorded(ledger)
           /\ Range(Discovered) \ Recorded(ledger) \subseteq Range(run'.yielded)
           /\ ListMigrationsToUpgrade(None, store', ledger').plan = <<>>
           /\ Recorded(ledger') = Range(Discovered')
           /\ schema' = Recorded(ledger')]_vars

\* C32 witness: init succeeded in a directory that held two migration
\* files already; the three are applied.
C32_Witness ==
    /\ res.op = "init"
    /\ res.error = "none"
    /\ table_exists
    /\ run.state = "done"
    /\ Len(run.yielded) = 3
    /\ Cardinality(ledger) = 3
    /\ Cardinality(Range(run.yielded) \cap InitNames) = 1

\* list_all_migrations(history_limit=0) has just returned or raised.
ListedWithZero == res.op = "list" /\ res.limit = Limit(0)

\* C33: list_all_migrations(history_limit = 0) returns every applied
\* record, ascending, then all pending identifiers: the rows of a call
\* with no limit.
C33_ZeroLimitIsNoLimit ==
    ListedWithZero =>
        /\ res.error = "none"
        /\ StatusRows(res.rows, StatusExpected(NoLimit))
        /\ res.rows = ListAllMigrations(NoLimit, store, ledger).rows

\* The outcome of the call with 0, error included, is that of the call
\* with no limit.
ZeroLimitAsNoLimit ==
    ListedWithZero =>
        /\ res.error = ListAllMigrations(NoLimit, store, ledger).error
        /\ res.rows = ListAllMigrations(NoLimit, store, ledger).rows

\* C33 witness: with two units applied and one pending, all names
\* parsing, the call with 0 returned the three rows.
C33_Witness ==
    /\ ListedWithZero
    /\ res.error = "none"
    /\ Cardinality(ledger) = 2
    /\ Len(res.rows) = 3
    /\ StatusRows(res.rows, StatusExpected(NoLimit))

\* C33, the failing case: with two units applied and README.md in the
\* directory, the call with 0 raised.
C33_WitnessRaised ==
    /\ ListedWithZero
    /\ res.error = "ValueError"
    /\ Cardinality(ledger) = 2
    /\ In(Readme, Discovered)

\* A resolver was just called with target_filename="".
ResolvedWithEmpty(op) == JustResolved(op) /\ res.target = Str(EmptyStr)

\* C34: the empty string is no target. list_migrations_to_upgrade("")
\* returns every pending file, ascending, and
\* list_migrations_to_downgrade("") returns every applied identifier,
\* descending; neither raises.
C34_EmptyTargetIsNoTarget ==
    /\ ResolvedWithEmpty("upgrade") =>
           LET Pending(f) == f \notin Recorded(ledger)
           IN  /\ res.error = "none"
               /\ res.plan = SelectSeq(Discovered, Pending)
               /\ res.plan = ListMigrationsToUpgrade(None, store, ledger).plan
    /\ ResolvedWithEmpty("downgrade") =>
           /\ res.error = "none"
           /\ res.plan = Reversed(ListAppliedMigrationFiles(ledger))
           /\ StrictlyDescending(res.plan)
           /\ Range(res.plan) = Recorded(ledger)
           /\ res.plan = ListMigrationsToDowngrade(None, store, ledger).plan

\* C34 witness: list_migrations_to_downgrade("") returned two applied
\* identifiers or more.
C34_Witness ==
    /\ ResolvedWithEmpty("downgrade")
    /\ Len(res.plan) >= 2

\* C34 witness, upgrade: list_migrations_to_upgrade("") returned two
\* pending files or more while a unit was applied.
C34_WitnessUpgrade ==
    /\ ResolvedWithEmpty("upgrade")
    /\ Len(res.plan) >= 2
    /\ ledger # {}

====
